---- MODULE Spec2Model ----
(***************************************************************************)
(* A model of src/src/ext2m.h: the ext2 geometry calculation, the layout   *)
(* addressing, the bitmap and inode accessors, the block allocator, the    *)
(* format procedure and the constructor that probes, formats or loads.     *)
(*                                                                         *)
(* config.h, cache.h and bitmap.h are not among the sources.  The          *)
(* deployment constants of config.h are the fields of the record cfg; the  *)
(* block cache is the function disk; the bit vector is the BitMap record.  *)
(***************************************************************************)
EXTENDS Integers, Sequences, FiniteSets, TLC

VARIABLES
    cfg,    \* the deployment: config.h's KB, BLOCK_SIZE, DISK_SIZE, INODE_SIZE, GROUP_DESC_SIZE
    disk,   \* the block device behind the cache: block index -> block
    pc,     \* "unbuilt" | "built" | "closed" | "open" | "crashed"
    mem,    \* the Ext2m object's members while a session is open
    last,   \* the last operation, its arguments and what it returned
    fmt,    \* the geometry the last completed format() stored in memory
    nops    \* accessor calls made so far (bounds the accessor specifications)

vars == <<cfg, disk, pc, mem, last, fmt, nops>>

(***************************************************************************)
(* Bounds of the model.                                                    *)
(***************************************************************************)
\* The device model's unit: config.h's KB is 1024; a bitmap block then has
\* 8192 bits.  The device specifications run on a deployment scaled to this
\* unit (BLOCK_SIZE = 1 * KB, as in the source's "only for BLOCK_SIZE = 1KB").
KB == 16
\* Full groups of the scaled devices run from 1 to MaxGroups.
MaxGroups == 3
\* Blocks of a short trailing group on the devices that have one.
ShortTail == 5
\* allocate(g, n) is called with n in 1..MaxCount.
MaxCount == 3
\* Accessor calls per behaviour in the bitmap and inode specifications.
MaxOps == 2
\* time(NULL) returns a value in 1..MaxTime.
MaxTime == 1
\* The geometry specification's real-size devices: 1 .. MaxDiskMB megabytes.
MaxDiskMB == 300

(***************************************************************************)
(* Constants of the ext2 headers (config.h).                               *)
(***************************************************************************)
EXT2_SUPER_MAGIC == 61267
EXT2_GOOD_OLD_FIRST_INO == 11
EXT2_S_IFDIR == 16384
EXT2_FT_DIR == 2
EXT2M_I_BLOCK_END == 0
EXT2_N_BLOCKS == 15

(***************************************************************************)
(* Arithmetic helpers, lines 20-22.                                        *)
(***************************************************************************)
ceil(x, y) == (x + y - 1) \div y

roundup(x, y) == ((x + y - 1) \div y) * y

RECURSIVE ctz(_)
ctz(x) == IF x % 2 = 1 THEN 0 ELSE 1 + ctz(x \div 2)

\* log2 is __builtin_ctzll: the number of trailing zero bits (x > 0).
log2(x) == ctz(x)

bytes_per_inode(c) == 2 * c.KB

MAX_BLOCKS_PER_GROUP(c) == 8 * c.BLOCK_SIZE

(***************************************************************************)
(* block_group_calculation, lines 33-70, with the names of the source.     *)
(***************************************************************************)
\* A slip in line 65: the inode table is not taken off the data blocks.
block_group_calculation_noitable(c) ==
    LET TOTAL_BLOCK == c.DISK_SIZE \div c.BLOCK_SIZE
        AVAILABLE_BLOCK == TOTAL_BLOCK - 1
        FULL_GROUP_COUNT == AVAILABLE_BLOCK \div MAX_BLOCKS_PER_GROUP(c)
        REMAINING_BLOCK == AVAILABLE_BLOCK - MAX_BLOCKS_PER_GROUP(c) * FULL_GROUP_COUNT
        GROUP_COUNT == FULL_GROUP_COUNT + (IF REMAINING_BLOCK > 0 THEN 1 ELSE 0)
        blocks_per_group == (AVAILABLE_BLOCK - REMAINING_BLOCK) \div FULL_GROUP_COUNT
        blocks_last_group == REMAINING_BLOCK
        group_desc_size == FULL_GROUP_COUNT * c.GROUP_DESC_SIZE
        group_desc_block_count == ceil(group_desc_size, c.BLOCK_SIZE)
        remain_block_size == (blocks_per_group - 3 - group_desc_block_count) * c.BLOCK_SIZE
        m == remain_block_size \div (bytes_per_inode(c) + c.INODE_SIZE)
        inodes_per_group == m
        inodes_table_size == inodes_per_group * c.INODE_SIZE
        inodes_table_block_count == ceil(inodes_table_size, c.BLOCK_SIZE)
        data_block_count == blocks_per_group - 3 - group_desc_block_count
    IN  [FULL_GROUP_COUNT |-> FULL_GROUP_COUNT, GROUP_COUNT |-> GROUP_COUNT,
         blocks_per_group |-> blocks_per_group, blocks_last_group |-> blocks_last_group,
         group_desc_block_count |-> group_desc_block_count,
         inodes_per_group |-> inodes_per_group,
         inodes_table_block_count |-> inodes_table_block_count,
         data_block_count |-> data_block_count]

block_group_calculation(c) ==
    LET TOTAL_BLOCK == c.DISK_SIZE \div c.BLOCK_SIZE
        AVAILABLE_BLOCK == TOTAL_BLOCK - 1
        FULL_GROUP_COUNT == AVAILABLE_BLOCK \div MAX_BLOCKS_PER_GROUP(c)
        REMAINING_BLOCK == AVAILABLE_BLOCK - MAX_BLOCKS_PER_GROUP(c) * FULL_GROUP_COUNT
        GROUP_COUNT == FULL_GROUP_COUNT + (IF REMAINING_BLOCK > 0 THEN 1 ELSE 0)
        blocks_per_group == (AVAILABLE_BLOCK - REMAINING_BLOCK) \div FULL_GROUP_COUNT
        blocks_last_group == REMAINING_BLOCK
        group_desc_size == FULL_GROUP_COUNT * c.GROUP_DESC_SIZE
        group_desc_block_count == ceil(group_desc_size, c.BLOCK_SIZE)
        remain_block_size == (blocks_per_group - 3 - group_desc_block_count) * c.BLOCK_SIZE
        m == remain_block_size \div (bytes_per_inode(c) + c.INODE_SIZE)
        inodes_per_group == m
        inodes_table_size == inodes_per_group * c.INODE_SIZE
        inodes_table_block_count == ceil(inodes_table_size, c.BLOCK_SIZE)
        data_block_count ==
            blocks_per_group - 3 - group_desc_block_count - inodes_table_block_count
    IN  [FULL_GROUP_COUNT |-> FULL_GROUP_COUNT, GROUP_COUNT |-> GROUP_COUNT,
         blocks_per_group |-> blocks_per_group, blocks_last_group |-> blocks_last_group,
         group_desc_block_count |-> group_desc_block_count,
         inodes_per_group |-> inodes_per_group,
         inodes_table_block_count |-> inodes_table_block_count,
         data_block_count |-> data_block_count]

\* Blocks of the device; whether the deployment has a full group.
DeviceBlocks(c) == c.DISK_SIZE \div c.BLOCK_SIZE

HasFullGroup(c) == (c.DISK_SIZE \div c.BLOCK_SIZE) - 1 >= MAX_BLOCKS_PER_GROUP(c)

(***************************************************************************)
(* Deployments.                                                            *)
(***************************************************************************)
\* Real-size deployments: KB = 1024, 128-byte inode records, 32-byte group
\* descriptors, block sizes of 1, 2 and 4 KB.  A deployment with no full
\* group does not compile (line 45 divides by FULL_GROUP_COUNT in a constant
\* expression), so only those with one are deployments.
RealConfigs ==
    {c \in [KB : {1024}, BLOCK_SIZE : {1024, 2048, 4096}, INODE_SIZE : {128},
            GROUP_DESC_SIZE : {32},
            DISK_SIZE : {mb * 1048576 + off : mb \in 1..MaxDiskMB, off \in {0, 5000}}] :
        HasFullGroup(c)}

\* The scaled deployments of the device model: f full groups and r more blocks.
ScaledConfig(f, r) ==
    [KB |-> KB, BLOCK_SIZE |-> 1 * KB, INODE_SIZE |-> 2, GROUP_DESC_SIZE |-> 1,
     DISK_SIZE |-> (1 + f * 8 * KB + r) * KB]

ScaledConfigs == {ScaledConfig(f, r) : f \in 1..MaxGroups, r \in {0, ShortTail}}

NoMem == [none |-> "mem"]

NoGeo == [none |-> "geo"]

NoDisk == <<>>

(***************************************************************************)
(* Blocks.  A block is a tagged value: raw bytes (a bitmap, a zeroed       *)
(* block, prior content), a superblock, a slice of the group descriptor    *)
(* table, a slice of an inode table, a directory block or the boot block.  *)
(* Reading a block as a structure it does not hold has no case below, so   *)
(* TLC stops with an error if a behaviour ever does so.                    *)
(***************************************************************************)
ZeroBytes(n) == [i \in 1..n |-> 0]

BytesBlock(v) == [tag |-> "bytes", bytes |-> v]

ZeroBlock(c) == BytesBlock(ZeroBytes(c.BLOCK_SIZE))

FillBlock(c, b) == BytesBlock([i \in 1..c.BLOCK_SIZE |-> b])

IsZero(blk) == blk.tag = "bytes" /\ \A i \in DOMAIN blk.bytes : blk.bytes[i] = 0

\* The bytes of a block, as read_block copies them into _buf.
AsBytes(blk) == CASE blk.tag = "bytes" -> blk.bytes

ZeroInode ==
    [i_mode |-> 0, i_uid |-> 0, i_size |-> 0, i_gid |-> 0, i_links_count |-> 0,
     i_blocks |-> 0, i_flags |-> 0, i_block |-> [j \in 0..(EXT2_N_BLOCKS - 1) |-> 0]]

\* sizeof(ext2_inode) is the deployment's INODE_SIZE.
inodes_in_buf(c) == c.BLOCK_SIZE \div c.INODE_SIZE

\* _buf read as an array of ext2_inode: the records that lie inside _buf.
AsInodes(c, blk) ==
    CASE blk.tag = "inodes" -> blk.inodes
      [] blk.tag = "bytes" ->
            [j \in 0..(inodes_in_buf(c) - 1) |->
                LET slice == SubSeq(blk.bytes, j * c.INODE_SIZE + 1, (j + 1) * c.INODE_SIZE)
                IN  IF \A i \in DOMAIN slice : slice[i] = 0 THEN ZeroInode
                    ELSE [raw |-> slice]]

\* An inode table block; an all-zero one is the zero block.
InodesBlock(c, v) ==
    IF \A j \in DOMAIN v : v[j] = ZeroInode THEN ZeroBlock(c)
    ELSE [tag |-> "inodes", inodes |-> v]

ZeroSuper ==
    [s_inodes_count |-> 0, s_blocks_count |-> 0, s_r_blocks_count |-> 0,
     s_free_blocks_count |-> 0, s_free_inodes_count |-> 0, s_first_data_block |-> 0,
     s_log_block_size |-> 0, s_log_frag_size |-> 0, s_blocks_per_group |-> 0,
     s_frags_per_group |-> 0, s_inodes_per_group |-> 0, s_mtime |-> 0, s_wtime |-> 0,
     s_mnt_count |-> 0, s_max_mnt_count |-> 0, s_magic |-> 0, s_state |-> 0,
     s_errors |-> 0, s_lastcheck |-> 0, s_rev_level |-> 0, s_first_ino |-> 0,
     s_inode_size |-> 0, s_block_group_nr |-> 0]

\* _buf read as an ext2_super_block.
AsSuper(blk) ==
    CASE blk.tag = "super" -> blk.sb
      [] IsZero(blk) -> ZeroSuper

SuperBlock(sb) == [tag |-> "super", sb |-> sb]

ZeroDesc ==
    [bg_block_bitmap |-> 0, bg_inode_bitmap |-> 0, bg_inode_table |-> 0,
     bg_free_blocks_count |-> 0, bg_free_inodes_count |-> 0, bg_used_dirs_count |-> 0]

descs_per_block(c) == c.BLOCK_SIZE \div c.GROUP_DESC_SIZE

\* A block read as a slice of the group descriptor table.
AsDescs(c, blk) ==
    CASE blk.tag = "gd" -> blk.descs
      [] blk.tag = "bytes" ->
            [j \in 0..(descs_per_block(c) - 1) |->
                LET slice == SubSeq(blk.bytes, j * c.GROUP_DESC_SIZE + 1,
                                    (j + 1) * c.GROUP_DESC_SIZE)
                IN  IF \A i \in DOMAIN slice : slice[i] = 0 THEN ZeroDesc
                    ELSE [raw |-> slice]]

BootBlock == [tag |-> "boot"]

(***************************************************************************)
(* The block cache (cache.h): read_block, write_block; flush_all changes   *)
(* nothing a reader of the cache sees.                                     *)
(***************************************************************************)
read_block(d, i) == d[i]

write_block(d, i, blk) == [d EXCEPT ![i] = blk]

(***************************************************************************)
(* The bit vector (bitmap.h): a BitMap built over a buffer copies the      *)
(* bytes that hold its bits; bit i is bit i % 8 of byte i / 8.             *)
(***************************************************************************)
BitMap(buf, n) == [size |-> n, bytes |-> SubSeq(buf, 1, ceil(n, 8))]

BitMap_test(bm, i) == (bm.bytes[(i \div 8) + 1] \div (2 ^ (i % 8))) % 2 = 1

BitMap_set(bm, i) ==
    IF BitMap_test(bm, i) THEN bm
    ELSE [bm EXCEPT !.bytes[(i \div 8) + 1] = @ + 2 ^ (i % 8)]

\* The first clear bit at or after start, or -1.
BitMap_nextBit(bm, start) ==
    IF \A i \in start..(bm.size - 1) : BitMap_test(bm, i) THEN -1
    ELSE CHOOSE i \in start..(bm.size - 1) :
            /\ ~BitMap_test(bm, i)
            /\ \A j \in start..(i - 1) : BitMap_test(bm, j)

\* data(): the packed bytes and their number.
BitMap_data(bm) == [first |-> bm.bytes, second |-> Len(bm.bytes)]

\* The indices of the set bits, and those of the clear bits.
BitMap_bits(bm) == {i \in 0..(bm.size - 1) : BitMap_test(bm, i)}

BitMap_clear(bm) == {i \in 0..(bm.size - 1) : ~BitMap_test(bm, i)}

RECURSIVE ByteOf(_, _, _)
ByteOf(S, base, k) ==
    IF k = 8 THEN 0
    ELSE (IF (base + k) \in S THEN 2 ^ k ELSE 0) + ByteOf(S, base, k + 1)

\* The bit vector of n bits whose set bits are those of S.
BitMapOf(S, n) == [size |-> n, bytes |-> [j \in 1..ceil(n, 8) |-> ByteOf(S, (j - 1) * 8, 0)]]

(***************************************************************************)
(* Layout addressing, lines 111-175.  m holds the object's geometry.       *)
(***************************************************************************)
get_group_index(m, group_index) == group_index * m.blocks_per_group + 1

get_group_super_block_index(m, group_index) == get_group_index(m, group_index) + 0

get_group_group_desc_table_index(m, group_index) == get_group_index(m, group_index) + 1

get_group_block_bitmap_index(m, group_index) ==
    get_group_group_desc_table_index(m, group_index) + m.group_desc_block_count

get_group_inode_bitmap_index(m, group_index) ==
    get_group_block_bitmap_index(m, group_index) + 1

\* A slip: the inode table placed two blocks after the inode bitmap.
get_group_inode_table_index_gap(m, group_index) ==
    get_group_inode_bitmap_index(m, group_index) + 2

get_group_inode_table_index(m, group_index) ==
    get_group_inode_bitmap_index(m, group_index) + 1

get_group_data_table_index(m, group_index) ==
    get_group_inode_table_index(m, group_index) + m.inodes_table_block_count

write_super_block_to_group(d, m, group_index, blk) ==
    write_block(d, get_group_super_block_index(m, group_index), blk)

\* table is the sequence of the table's blocks, one per descriptor block.
RECURSIVE write_group_desc_table_from(_, _, _, _, _)
write_group_desc_table_from(d, m, group_index, table, i) ==
    IF i >= m.group_desc_block_count THEN d
    ELSE write_group_desc_table_from(
            write_block(d, get_group_group_desc_table_index(m, group_index) + i, table[i + 1]),
            m, group_index, table, i + 1)

write_group_desc_table_to_group(d, m, group_index, table) ==
    write_group_desc_table_from(d, m, group_index, table, 0)

(***************************************************************************)
(* Inode accessors, lines 196-226.  Both read the FIRST block of the       *)
(* group's inode table into _buf and index it with the in-group index; an  *)
(* index of inodes_in_buf or more lies outside _buf.                       *)
(***************************************************************************)
inode_group(m, inode_num) == (inode_num - 1) \div m.inodes_per_group

inode_ind(m, inode_num) == (inode_num - 1) % m.inodes_per_group

\* Both asserts of the accessors pass.
inode_num_ok(m, inode_num) ==
    inode_num >= 1 /\ inode_group(m, inode_num) < m.full_group_count

ind_in_buf(c, m, inode_num) == inode_ind(m, inode_num) < inodes_in_buf(c)

\* get_inode where the record lies inside _buf.
get_inode(c, d, m, inode_num) ==
    LET inode_table_block_ind == get_group_inode_table_index(m, inode_group(m, inode_num))
    IN  AsInodes(c, read_block(d, inode_table_block_ind))[inode_ind(m, inode_num)]

\* write_inode: the device after the call.  Outside _buf the assignment
\* lands beyond the buffer and the block goes back as it was read.
write_inode(c, d, m, inode_num, inode) ==
    LET inode_table_block_ind == get_group_inode_table_index(m, inode_group(m, inode_num))
        blk == read_block(d, inode_table_block_ind)
    IN  IF ind_in_buf(c, m, inode_num)
        THEN write_block(d, inode_table_block_ind,
                InodesBlock(c, [AsInodes(c, blk) EXCEPT ![inode_ind(m, inode_num)] = inode]))
        ELSE write_block(d, inode_table_block_ind, blk)

(***************************************************************************)
(* Bitmap accessors, lines 234-279.                                        *)
(***************************************************************************)
get_group_block_bitmap(d, m, group_index) ==
    BitMap(AsBytes(read_block(d, get_group_block_bitmap_index(m, group_index))),
           m.blocks_per_group)

get_group_inode_bitmap(d, m, group_index) ==
    BitMap(AsBytes(read_block(d, get_group_inode_bitmap_index(m, group_index))),
           m.inodes_per_group)

\* A slip: the copy stops one byte short of the bitmap's size.
padded_short(c, bitmap) ==
    LET tmp == BitMap_data(bitmap)
    IN  [i \in 1..c.BLOCK_SIZE |-> IF i < tmp.second THEN tmp.first[i] ELSE 0]

\* memset(_buf, 0, BLOCK_SIZE); memcpy(_buf, buf, size)
padded(c, bitmap) ==
    LET tmp == BitMap_data(bitmap)
    IN  [i \in 1..c.BLOCK_SIZE |-> IF i <= tmp.second THEN tmp.first[i] ELSE 0]

write_group_block_bitmap(c, d, m, group_index, bitmap) ==
    write_block(d, get_group_block_bitmap_index(m, group_index), BytesBlock(padded(c, bitmap)))

write_group_inode_bitmap(c, d, m, group_index, bitmap) ==
    write_block(d, get_group_inode_bitmap_index(m, group_index), BytesBlock(padded(c, bitmap)))

(***************************************************************************)
(* The block allocator, lines 310-335.                                     *)
(***************************************************************************)
\* The while loop of lines 319-332 over one group's bitmap: the addresses
\* collected and the count left; count 0 is the return of line 329.
RECURSIVE scan_bitmap(_, _, _, _, _)
scan_bitmap(bitmap, start, group_ind, ret, count) ==
    LET s == BitMap_nextBit(bitmap, start)
    IN  IF s = -1 THEN [ret |-> ret, count |-> count]
        ELSE IF count - 1 = 0 THEN [ret |-> Append(ret, s + group_ind), count |-> 0]
        ELSE scan_bitmap(BitMap_set(bitmap, s), s, group_ind,
                         Append(ret, s + group_ind), count - 1)

\* The for loop of line 314: it ends, without scanning group i, as soon as
\* (i + 1) % full_group_count is group_id.
RECURSIVE scan_groups(_, _, _, _, _, _)
scan_groups(d, m, group_id, i, ret, count) ==
    IF (i + 1) % m.full_group_count = group_id THEN [ret |-> ret, count |-> count]
    ELSE LET r == scan_bitmap(get_group_block_bitmap(d, m, i), 0,
                              get_group_index(m, i), ret, count)
         IN  IF r.count = 0 THEN r
             ELSE scan_groups(d, m, group_id, (i + 1) % m.full_group_count, r.ret, r.count)

\* A slip: what was collected is returned although the request was not met.
get_free_block_indexes_partial(d, m, group_id, count) ==
    scan_groups(d, m, group_id, group_id, <<>>, count).ret

\* No block is written: the bits set in the loop are set in the loaded copy.
get_free_block_indexes(d, m, group_id, count) ==
    LET r == scan_groups(d, m, group_id, group_id, <<>>, count)
    IN  IF r.count = 0 THEN r.ret ELSE <<>>

(***************************************************************************)
(* Probe and load, lines 91-104 and 284-301.                               *)
(***************************************************************************)
\* The literal 1024 of line 98 is the deployment's KB.
check_is_ext2_format(c, d) ==
    LET sb == AsSuper(read_block(d, 1))
    IN  /\ sb.s_magic = EXT2_SUPER_MAGIC
        /\ c.KB * (2 ^ sb.s_log_block_size) = c.BLOCK_SIZE
        /\ sb.s_first_data_block = 1
        /\ sb.s_inodes_per_group <= 8 * c.BLOCK_SIZE
        /\ sb.s_first_ino = EXT2_GOOD_OLD_FIRST_INO
        /\ sb.s_inode_size = c.INODE_SIZE

\* A slip: the full-group count read as the inode count, undivided.
read_info_nodiv(c, d) ==
    LET sb == AsSuper(read_block(d, 1))
    IN  [blocks_per_group |-> sb.s_blocks_per_group,
         inodes_per_group |-> sb.s_inodes_per_group,
         full_group_count |-> sb.s_inodes_count,
         group_desc_block_count |-> ceil(sb.s_inodes_count * c.GROUP_DESC_SIZE, c.BLOCK_SIZE),
         inodes_table_block_count |-> ceil(sb.s_inodes_per_group * c.INODE_SIZE, c.BLOCK_SIZE)]

\* sizeof(ext2_group_desc) is the deployment's GROUP_DESC_SIZE.
read_info(c, d) ==
    LET sb == AsSuper(read_block(d, 1))
        full_group_count == sb.s_inodes_count \div sb.s_inodes_per_group
    IN  [blocks_per_group |-> sb.s_blocks_per_group,
         inodes_per_group |-> sb.s_inodes_per_group,
         full_group_count |-> full_group_count,
         group_desc_block_count |-> ceil(full_group_count * c.GROUP_DESC_SIZE, c.BLOCK_SIZE),
         inodes_table_block_count |-> ceil(sb.s_inodes_per_group * c.INODE_SIZE, c.BLOCK_SIZE)]

\* The five geometry members of an object or of a calculation.
Geometry(m) ==
    [full_group_count |-> m.full_group_count,
     blocks_per_group |-> m.blocks_per_group,
     inodes_per_group |-> m.inodes_per_group,
     group_desc_block_count |-> m.group_desc_block_count,
     inodes_table_block_count |-> m.inodes_table_block_count]

(***************************************************************************)
(* format, lines 371-585.                                                  *)
(***************************************************************************)
\* Lines 378-391: the members format stores.
format_geometry(c) ==
    LET g == block_group_calculation(c)
    IN  [full_group_count |-> g.FULL_GROUP_COUNT,
         blocks_per_group |-> g.blocks_per_group,
         inodes_per_group |-> g.inodes_per_group,
         group_desc_block_count |-> g.group_desc_block_count,
         inodes_table_block_count |-> g.inodes_table_block_count]

\* Lines 402-455 and 474; t is time(NULL).  The byte-array fields (uuid,
\* volume name, journal, hash seed) and the zeroed feature words are left out.
format_super_block(c, t) ==
    LET m == format_geometry(c)
    IN  [s_inodes_count |-> m.inodes_per_group * m.full_group_count,
         s_blocks_count |-> MAX_BLOCKS_PER_GROUP(c) * m.full_group_count,
         s_r_blocks_count |-> 0,
         s_free_blocks_count |->
            m.blocks_per_group * m.full_group_count
            - (3 + m.group_desc_block_count + m.inodes_table_block_count) * m.full_group_count,
         s_free_inodes_count |-> m.inodes_per_group * m.full_group_count,
         s_first_data_block |-> IF c.BLOCK_SIZE = 1 * c.KB THEN 1 ELSE 0,
         s_log_block_size |-> log2(c.BLOCK_SIZE \div c.KB),
         s_log_frag_size |-> log2(c.BLOCK_SIZE \div c.KB),
         s_blocks_per_group |-> m.blocks_per_group,
         s_frags_per_group |-> m.blocks_per_group,
         s_inodes_per_group |-> m.inodes_per_group,
         s_mtime |-> t, s_wtime |-> t,
         s_mnt_count |-> 0, s_max_mnt_count |-> 1024,
         s_magic |-> EXT2_SUPER_MAGIC, s_state |-> 1, s_errors |-> 1,
         s_lastcheck |-> t, s_rev_level |-> 0,
         s_first_ino |-> EXT2_GOOD_OLD_FIRST_INO,
         s_inode_size |-> c.INODE_SIZE,
         s_block_group_nr |-> 0]

\* Lines 459-471: descriptor i.
format_group_desc(m, i) ==
    [bg_block_bitmap |-> get_group_block_bitmap_index(m, i),
     bg_inode_bitmap |-> get_group_inode_bitmap_index(m, i),
     bg_inode_table |-> get_group_inode_table_index(m, i),
     bg_free_blocks_count |->
        m.blocks_per_group - 3 - m.group_desc_block_count - m.inodes_table_block_count,
     bg_free_inodes_count |-> m.inodes_per_group,
     bg_used_dirs_count |-> 0]

\* Lines 486-488: the zero-padded table, cut into blocks.
format_desc_table(c, m) ==
    [b \in 1..m.group_desc_block_count |->
        [tag |-> "gd",
         descs |-> [j \in 0..(descs_per_block(c) - 1) |->
                    LET i == (b - 1) * descs_per_block(c) + j
                    IN  IF i < m.full_group_count THEN format_group_desc(m, i) ELSE ZeroDesc]]]

\* A slip: the superblock written to the first group alone.
format_write_supers_first(d, m, blk, i) == write_super_block_to_group(d, m, 0, blk)

\* Lines 479-482.
RECURSIVE format_write_supers(_, _, _, _)
format_write_supers(d, m, blk, i) ==
    IF i >= m.full_group_count THEN d
    ELSE format_write_supers(write_super_block_to_group(d, m, i, blk), m, blk, i + 1)

\* Lines 489-492.
RECURSIVE format_write_tables(_, _, _, _)
format_write_tables(d, m, table, i) ==
    IF i >= m.full_group_count THEN d
    ELSE format_write_tables(write_group_desc_table_to_group(d, m, i, table), m, table, i + 1)

\* Lines 499-506: zero from the inode bitmap's block to the end of the group.
format_zero_group(c, d, m, i) ==
    [b \in DOMAIN d |->
        IF b >= get_group_inode_bitmap_index(m, i) /\ b < get_group_index(m, i) + m.blocks_per_group
        THEN ZeroBlock(c) ELSE d[b]]

\* Lines 508-512.
RECURSIVE set_first_bits(_, _, _)
set_first_bits(bm, j, end) ==
    IF j >= end THEN bm ELSE set_first_bits(BitMap_set(bm, j), j + 1, end)

\* Lines 497-514.  The block bitmap is loaded from its block as the device
\* holds it: that block is not among the zeroed ones.
RECURSIVE format_init_groups(_, _, _, _)
format_init_groups(c, d, m, i) ==
    IF i >= m.full_group_count THEN d
    ELSE LET zeroed == format_zero_group(c, d, m, i)
             bm == set_first_bits(get_group_block_bitmap(zeroed, m, i), 0,
                        3 + m.group_desc_block_count + m.inodes_table_block_count)
         IN  format_init_groups(c, write_group_block_bitmap(c, zeroed, m, i, bm), m, i + 1)

\* Lines 526-557: the local root_ino; blk is tmp.front().
format_root_ino(blk) ==
    [ZeroInode EXCEPT !.i_mode = EXT2_S_IFDIR + 493, !.i_links_count = 2,
                      !.i_blocks = 1, !.i_block[0] = blk]

\* Lines 558-581: the two entries; rec_len is a 16-bit field.
format_root_dir(c) ==
    LET offset == roundup(8 + 1 + 1, 4)
    IN  [tag |-> "dir",
         entries |-> << [inode |-> 2, name_len |-> 1, file_type |-> EXT2_FT_DIR,
                   name |-> ".", rec_len |-> offset],
                  [inode |-> 2, name_len |-> 2, file_type |-> EXT2_FT_DIR,
                   name |-> "..", rec_len |-> (c.BLOCK_SIZE - offset) % 65536] >>]

\* Lines 556-584, tmp being the allocator's answer and d the device after
\* line 516.  tmp.front() of an empty answer reads through the null start
\* pointer of an empty vector, which ends the process; everything written
\* before it was flushed at line 516.  The inode bitmap with bit 2 set
\* (lines 521-523) and root_ino are locals that no statement writes to the
\* device.
format_root(c, d, m, tmp) ==
    IF tmp = <<>>
    THEN [disk |-> d, geo |-> m, tmp |-> tmp, crashed |-> TRUE, root_ino |-> ZeroInode,
          bm |-> BitMap_set(get_group_inode_bitmap(d, m, 0), 2)]
    ELSE [disk |-> write_block(d, tmp[1], format_root_dir(c)), geo |-> m, tmp |-> tmp,
          crashed |-> FALSE, root_ino |-> format_root_ino(tmp[1]),
          bm |-> BitMap_set(get_group_inode_bitmap(d, m, 0), 2)]

\* Lines 520-557: the root directory is given the answer of allocate(0, 1).
format_add_root(c, d, m) == format_root(c, d, m, get_free_block_indexes(d, m, 0, 1))

\* Lines 374-516 with the members m stored.
format_groups(c, d, m, t) ==
    format_init_groups(c,
        format_write_tables(
            format_write_supers(write_block(d, 0, BootBlock), m,
                                SuperBlock(format_super_block(c, t)), 0),
            m, format_desc_table(c, m), 0),
        m, 0)

format_with(c, d, m, t) == format_add_root(c, format_groups(c, d, m, t), m)

\* format: the device when it returns or stops, the members it stored, the
\* allocator's answer and whether it stopped.
format(c, d, t) == format_with(c, d, format_geometry(c), t)

(***************************************************************************)
(* The constructor, lines 338-354: the members after it.                   *)
(***************************************************************************)
load_group_desc(c, d, m) ==
    [i \in 0..(m.full_group_count - 1) |->
        AsDescs(c, read_block(d, 2 + (i \div descs_per_block(c))))[i % descs_per_block(c)]]

members(c, d, m) ==
    [full_group_count |-> m.full_group_count,
     blocks_per_group |-> m.blocks_per_group,
     inodes_per_group |-> m.inodes_per_group,
     group_desc_block_count |-> m.group_desc_block_count,
     inodes_table_block_count |-> m.inodes_table_block_count,
     superb |-> AsSuper(read_block(d, 1)),
     group_desc |-> load_group_desc(c, d, m)]

(***************************************************************************)
(* Devices before the first session.                                       *)
(***************************************************************************)
\* Superblocks a device may hold in block 1 before the first session: the
\* one format writes for the deployment, and that one with one field
\* changed.  (A superblock with s_inodes_per_group = 0 passes the probe and
\* makes line 291 divide by zero; none is listed.)
PriorSupers(c) ==
    LET base == format_super_block(c, 0)
        f == format_geometry(c).full_group_count
    IN  {base,
         [base EXCEPT !.s_magic = 0],
         [base EXCEPT !.s_log_block_size = 1],
         [base EXCEPT !.s_first_data_block = 0],
         [base EXCEPT !.s_inodes_per_group = 8 * c.BLOCK_SIZE + 1],
         [base EXCEPT !.s_first_ino = 1],
         [base EXCEPT !.s_inode_size = 2 * c.INODE_SIZE],
         [base EXCEPT !.s_blocks_per_group = @ - 8],
         [base EXCEPT !.s_inodes_per_group = @ - 1],
         [base EXCEPT !.s_inodes_count = @ + 1],
         [base EXCEPT !.s_inodes_count = IF f > 1 THEN base.s_inodes_per_group * (f - 1) ELSE @]}

\* Bytes the other blocks of such a device are filled with.
FillBytes == {0, 170, 255}

Device(c, fill, blk1) ==
    [b \in 0..(DeviceBlocks(c) - 1) |-> IF b = 1 THEN blk1 ELSE FillBlock(c, fill)]

PriorDevices(c) ==
    {Device(c, fill, blk1) :
        fill \in FillBytes,
        blk1 \in {ZeroBlock(c)} \cup {SuperBlock(sb) : sb \in PriorSupers(c)}}

Init ==
    /\ cfg \in ScaledConfigs
    /\ disk \in PriorDevices(cfg)
    /\ pc = "closed"
    /\ mem = NoMem
    /\ last = [op |-> "none"]
    /\ fmt = NoGeo
    /\ nops = 0

\* A blank device of one of the deployments, with or without a short
\* trailing group.
InitBlank ==
    /\ cfg \in ScaledConfigs
    /\ disk = Device(cfg, 0, ZeroBlock(cfg))
    /\ pc = "closed"
    /\ mem = NoMem
    /\ last = [op |-> "none"]
    /\ fmt = NoGeo
    /\ nops = 0

\* A blank device that ends with its last full group.
InitAlloc ==
    /\ cfg \in {ScaledConfig(f, 0) : f \in 1..MaxGroups}
    /\ disk = Device(cfg, 0, ZeroBlock(cfg))
    /\ pc = "closed"
    /\ mem = NoMem
    /\ last = [op |-> "none"]
    /\ fmt = NoGeo
    /\ nops = 0

(***************************************************************************)
(* Sessions: the constructor and the destructor.                           *)
(***************************************************************************)
\* What the constructor leaves after format returned f.
Formatted(f) ==
    /\ disk' = f.disk
    /\ IF f.crashed
       THEN /\ pc' = "crashed"
            /\ mem' = NoMem
            /\ fmt' = fmt
            /\ last' = [op |-> "format_crash", tmp |-> f.tmp, geo |-> f.geo]
       ELSE /\ pc' = "open"
            /\ mem' = members(cfg, f.disk, f.geo)
            /\ fmt' = [geo |-> f.geo, root_block |-> f.tmp[1]]
            /\ last' = [op |-> "format", tmp |-> f.tmp, geo |-> f.geo, root_ino |-> f.root_ino]

OpenFormat ==
    /\ pc \in {"closed", "crashed"}
    /\ ~check_is_ext2_format(cfg, disk)
    /\ \E t \in 1..MaxTime : Formatted(format(cfg, disk, t))
    /\ UNCHANGED <<cfg, nops>>

OpenLoad ==
    /\ pc \in {"closed", "crashed"}
    /\ check_is_ext2_format(cfg, disk)
    /\ pc' = "open"
    /\ mem' = members(cfg, disk, read_info(cfg, disk))
    /\ last' = [op |-> "load", pre |-> disk, formatted |-> fmt # NoGeo]
    /\ UNCHANGED <<cfg, disk, fmt, nops>>

\* The constructor: probe, then format or read_info, then lines 344-353.
Open == OpenFormat \/ OpenLoad

\* The destructor: sync and release.
Close ==
    /\ pc = "open"
    /\ pc' = "closed"
    /\ mem' = NoMem
    /\ last' = [op |-> "close"]
    /\ UNCHANGED <<cfg, disk, fmt, nops>>

(***************************************************************************)
(* The accessors and the allocator called in an open session.              *)
(***************************************************************************)
Groups == 0..(mem.full_group_count - 1)

MetaBlocks(m) == 3 + m.group_desc_block_count + m.inodes_table_block_count

\* Block bitmaps a caller stores: full, nearly full, only the metadata used.
BlockPatterns(m) ==
    LET n == m.blocks_per_group
    IN  {BitMapOf(S, n) : S \in {0..(n - 1), 0..(n - 2), (0..(n - 1)) \ {n - 3, n - 1},
                                 0..(MetaBlocks(m) - 1)}}

InodePatterns(m) ==
    LET n == m.inodes_per_group
    IN  {BitMapOf(S, n) : S \in {{}, {0, 1}, {n - 1}, 0..(n - 1)}}

Allocate ==
    /\ pc = "open"
    /\ \E g \in Groups, n \in 1..MaxCount :
        last' = [op |-> "allocate", g |-> g, n |-> n, pre |-> disk, after |-> last.op,
                 ret |-> get_free_block_indexes(disk, mem, g, n)]
    /\ UNCHANGED <<cfg, disk, pc, mem, fmt, nops>>

\* Block bitmaps the allocator's client stores: full, one block free, only
\* the metadata used.
MarkPatterns(m) ==
    LET n == m.blocks_per_group
    IN  {BitMapOf(S, n) : S \in {0..(n - 1), 0..(n - 2), 0..(MetaBlocks(m) - 1)}}

\* write_group_block_bitmap called by the allocator's client, uncounted.
MarkBlocks ==
    /\ pc = "open"
    /\ \E g \in Groups, bm \in MarkPatterns(mem) :
        /\ disk' = write_group_block_bitmap(cfg, disk, mem, g, bm)
        /\ last' = [op |-> "mark_blocks", g |-> g]
    /\ UNCHANGED <<cfg, pc, mem, fmt, nops>>

StoreBlockBitmap ==
    /\ pc = "open"
    /\ nops < MaxOps
    /\ \E g \in Groups, bm \in BlockPatterns(mem) :
        /\ disk' = write_group_block_bitmap(cfg, disk, mem, g, bm)
        /\ last' = [op |-> "store_block_bitmap", g |-> g, bm |-> bm, pre |-> disk]
    /\ nops' = nops + 1
    /\ UNCHANGED <<cfg, pc, mem, fmt>>

StoreInodeBitmap ==
    /\ pc = "open"
    /\ nops < MaxOps
    /\ \E g \in Groups, bm \in InodePatterns(mem) :
        /\ disk' = write_group_inode_bitmap(cfg, disk, mem, g, bm)
        /\ last' = [op |-> "store_inode_bitmap", g |-> g, bm |-> bm, pre |-> disk]
    /\ nops' = nops + 1
    /\ UNCHANGED <<cfg, pc, mem, fmt>>

LoadBlockBitmap ==
    /\ pc = "open"
    /\ nops < MaxOps
    /\ \E g \in Groups :
        last' = [op |-> "load_block_bitmap", g |-> g,
                 ret |-> get_group_block_bitmap(disk, mem, g)]
    /\ nops' = nops + 1
    /\ UNCHANGED <<cfg, disk, pc, mem, fmt>>

LoadInodeBitmap ==
    /\ pc = "open"
    /\ nops < MaxOps
    /\ \E g \in Groups :
        last' = [op |-> "load_inode_bitmap", g |-> g,
                 ret |-> get_group_inode_bitmap(disk, mem, g)]
    /\ nops' = nops + 1
    /\ UNCHANGED <<cfg, disk, pc, mem, fmt>>

\* Inode numbers a caller passes: the first ones, the last whose record lies
\* inside _buf and the first past it, the ends of group 0 and of the table.
InodeNums(c, m) ==
    {k \in {1, 2, inodes_in_buf(c), inodes_in_buf(c) + 1, m.inodes_per_group,
            m.inodes_per_group + 1, m.inodes_per_group * m.full_group_count} :
        inode_num_ok(m, k)}

\* Records a caller writes.
InodeInputs ==
    {[ZeroInode EXCEPT !.i_mode = EXT2_S_IFDIR + 493, !.i_links_count = 2,
                       !.i_blocks = 1, !.i_block[0] = 20],
     [ZeroInode EXCEPT !.i_mode = 33188, !.i_links_count = 1, !.i_size = 5]}

\* write_inode.  With the record outside _buf the assignment of line 224
\* writes past the buffer, over what follows it in memory: the process goes
\* on, or its state is lost there.
WriteInode ==
    /\ pc = "open"
    /\ nops < MaxOps
    /\ \E k \in InodeNums(cfg, mem), r \in InodeInputs :
        /\ disk' = write_inode(cfg, disk, mem, k, r)
        /\ last' = [op |-> "write_inode", k |-> k, r |-> r, pre |-> disk]
        /\ \/ pc' = "open" /\ mem' = mem
           \/ ~ind_in_buf(cfg, mem, k) /\ pc' = "crashed" /\ mem' = NoMem
    /\ nops' = nops + 1
    /\ UNCHANGED <<cfg, fmt>>

\* get_inode.  With the record outside _buf line 206 reads past the buffer:
\* any record comes back.
GetInode ==
    /\ pc = "open"
    /\ nops < MaxOps
    /\ \E k \in InodeNums(cfg, mem) :
        \/ /\ ind_in_buf(cfg, mem, k)
           /\ last' = [op |-> "get_inode", k |-> k, ret |-> get_inode(cfg, disk, mem, k)]
        \/ /\ ~ind_in_buf(cfg, mem, k)
           /\ \E v \in InodeInputs \cup {ZeroInode} :
                last' = [op |-> "get_inode", k |-> k, ret |-> v]
    /\ nops' = nops + 1
    /\ UNCHANGED <<cfg, disk, pc, mem, fmt>>

(***************************************************************************)
(* Specifications.                                                         *)
(***************************************************************************)
\* Sessions on any prior device.
Next == Open \/ Close

Spec == Init /\ [][Next]_vars

\* The allocator on formatted devices whose block bitmaps its client marks.
NextAlloc == Open \/ MarkBlocks \/ Allocate

SpecAlloc == InitAlloc /\ [][NextAlloc]_vars

\* The bitmap accessors.
NextBitmap ==
    Open \/ StoreBlockBitmap \/ StoreInodeBitmap \/ LoadBlockBitmap \/ LoadInodeBitmap

SpecBitmap == InitBlank /\ [][NextBitmap]_vars

\* The inode accessors.
NextInode == Open \/ WriteInode \/ GetInode

SpecInode == InitBlank /\ [][NextInode]_vars

(***************************************************************************)
(* The geometry specification: the calculation applied to each deployment. *)
(***************************************************************************)
InitGeom ==
    /\ cfg \in RealConfigs \cup ScaledConfigs
    /\ disk = NoDisk
    /\ pc = "unbuilt"
    /\ mem = NoMem
    /\ last = [op |-> "none"]
    /\ fmt = NoGeo
    /\ nops = 0

Calculate ==
    /\ pc = "unbuilt"
    /\ pc' = "built"
    /\ last' = [op |-> "calc", ret |-> block_group_calculation(cfg)]
    /\ UNCHANGED <<cfg, disk, mem, fmt, nops>>

NextGeom == Calculate

SpecGeom == InitGeom /\ [][NextGeom]_vars

\* C6: for every configured device size and block size, the calculated
\* regions satisfy 3 + descriptor blocks + inode table blocks + data blocks
\* = blocks per group, and blocks per group is at most 8 * block size.
C6_RegionsSum ==
    last.op = "calc" =>
        /\ 3 + last.ret.group_desc_block_count + last.ret.inodes_table_block_count
             + last.ret.data_block_count = last.ret.blocks_per_group
        /\ last.ret.blocks_per_group <= 8 * cfg.BLOCK_SIZE
        /\ last.ret.data_block_count >= 0

\* A deployment with several full groups and a short trailing group has been calculated.
C6_Witness ==
    /\ last.op = "calc"
    /\ last.ret.FULL_GROUP_COUNT >= 2
    /\ last.ret.blocks_last_group > 0
    /\ last.ret.inodes_table_block_count > 1
    /\ last.ret.data_block_count > 0

(***************************************************************************)
(* The allocator's claims, checked under SpecAlloc.                        *)
(***************************************************************************)
\* C1: when the block bitmaps of all full groups together have at least n
\* clear bits, allocate(g, n) returns exactly n pairwise distinct addresses,
\* each clear in its group's block bitmap before the call.
C1_AllocateWhenEnough ==
    last.op = "allocate" =>
        LET free == UNION {{get_group_index(mem, g) + i :
                                i \in BitMap_clear(get_group_block_bitmap(last.pre, mem, g))} :
                           g \in Groups}
        IN  Cardinality(free) >= last.n =>
                /\ Len(last.ret) = last.n
                /\ \A i, j \in 1..Len(last.ret) : i # j => last.ret[i] # last.ret[j]
                /\ \A i \in 1..Len(last.ret) : last.ret[i] \in free

\* C2: after allocate(g, n) returned a non-empty result, every returned
\* address is marked used in its group's block bitmap as re-loaded from the
\* device; called right after Format, it returns neither the block Format
\* gave the root directory nor a metadata block.
C2_ReturnedMarkedUsed ==
    (last.op = "allocate" /\ last.ret # <<>>) =>
        \A i \in 1..Len(last.ret) :
            LET g == (last.ret[i] - 1) \div mem.blocks_per_group
                b == (last.ret[i] - 1) % mem.blocks_per_group
            IN  /\ BitMap_test(get_group_block_bitmap(disk, mem, g), b)
                /\ last.after = "format" =>
                        /\ last.ret[i] # fmt.root_block
                        /\ b >= MetaBlocks(mem)

\* C7: allocate(g, n) called when the block bitmaps of all full groups
\* together have fewer than n clear bits returns an empty result.
C7_TooFewGivesEmpty ==
    last.op = "allocate" =>
        LET free == UNION {{get_group_index(mem, g) + i :
                                i \in BitMap_clear(get_group_block_bitmap(last.pre, mem, g))} :
                           g \in Groups}
        IN  Cardinality(free) < last.n => last.ret = <<>>

\* allocate(g, n) was called with some, but fewer than n, clear bits in all
\* full groups together, one of them in the preferred group, which is scanned.
C7_Witness ==
    /\ last.op = "allocate"
    /\ mem.full_group_count >= 2
    /\ LET clear(g) == BitMap_clear(get_group_block_bitmap(last.pre, mem, g))
       IN  /\ clear(last.g) # {}
           /\ \A g \in Groups \ {last.g} : clear(g) = {}
           /\ Cardinality(clear(last.g)) < last.n
    /\ last.ret = <<>>

(***************************************************************************)
(* The claims on format, probe and load, checked under Spec.               *)
(***************************************************************************)
\* C3: after Format, get_inode(2) read back from the device is the root
\* inode: a directory with link count 2 and exactly one non-sentinel direct
\* block pointer, and the block it names holds the entries '.' and '..',
\* both of inode 2, whose record lengths sum to the block size.
C3_RootReadBack ==
    last.op = "format" =>
        LET r == get_inode(cfg, disk, mem, 2)
        IN  /\ r.i_mode \div 4096 = EXT2_S_IFDIR \div 4096
            /\ r.i_links_count = 2
            /\ Cardinality({j \in DOMAIN r.i_block : r.i_block[j] # EXT2M_I_BLOCK_END}) = 1
            /\ \A j \in DOMAIN r.i_block :
                r.i_block[j] # EXT2M_I_BLOCK_END =>
                    LET blk == read_block(disk, r.i_block[j])
                    IN  /\ blk.tag = "dir"
                        /\ Len(blk.entries) = 2
                        /\ blk.entries[1].name = "." /\ blk.entries[2].name = ".."
                        /\ blk.entries[1].inode = 2 /\ blk.entries[2].inode = 2
                        /\ blk.entries[1].rec_len + blk.entries[2].rec_len = cfg.BLOCK_SIZE

\* C4: after Format on any device, the superblock slot of every full group
\* holds the same superblock as block 1, and probe accepts the device.
C4_SuperblockCopies ==
    last.op \in {"format", "format_crash"} =>
        /\ \A g \in 0..(last.geo.full_group_count - 1) :
            /\ read_block(disk, g * last.geo.blocks_per_group + 1).tag = "super"
            /\ read_block(disk, g * last.geo.blocks_per_group + 1) = read_block(disk, 1)
        /\ check_is_ext2_format(cfg, disk)

\* Format has completed on a device of several full groups that held other
\* content before: the last bit of group 0's block bitmap is a stale one.
C4_Witness ==
    /\ last.op = "format"
    /\ last.geo.full_group_count >= 2
    /\ BitMap_test(get_group_block_bitmap(disk, mem, 0), mem.blocks_per_group - 1)

\* C9: every device probe accepts lets load reconstruct the geometry the
\* Geometry Calculator computes for the deployment.
C9_AcceptedMatchesCalculator ==
    last.op = "load" => Geometry(mem) = format_geometry(cfg)

\* C10: a device that a previous session formatted passes the probe, so that
\* opening it takes the load path; the load writes no block and the geometry
\* it reconstructs equals the one Format stored when it created the image.
C10_ReopenLoads ==
    /\ (pc = "closed" /\ fmt # NoGeo) => check_is_ext2_format(cfg, disk)
    /\ (last.op = "load" /\ last.formatted) =>
            /\ disk = last.pre
            /\ Geometry(mem) = fmt.geo

\* A device of several full groups formatted by an earlier session has been
\* opened again.
C10_Witness ==
    /\ last.op = "load"
    /\ last.formatted
    /\ pc = "open"
    /\ mem.full_group_count >= 2

(***************************************************************************)
(* The accessors' claims, checked under SpecInode and SpecBitmap.          *)
(***************************************************************************)
\* C5: for every valid inode number k and record r, after put_inode(k, r)
\* the call has returned and the one inode-table block that contains k's
\* in-group index holds r at that index, which is what get_inode(k) reads
\* back, also when the index lies beyond the first block of the table.
C5_InodeRoundTrip ==
    last.op = "write_inode" =>
        /\ pc = "open"
        /\ LET ind == inode_ind(mem, last.k)
               blk == get_group_inode_table_index(mem, inode_group(mem, last.k))
                        + (ind \div inodes_in_buf(cfg))
           IN  AsInodes(cfg, read_block(disk, blk))[ind % inodes_in_buf(cfg)] = last.r

\* C8: for every full group g and every bitmap b of either kind, after
\* store_bitmap(g, b) the bitmap loaded from the device for g has the size
\* and the set bits of b, and no block but the bitmap's backing block differs
\* from the device before the store.
C8_BitmapRoundTrip ==
    /\ last.op = "store_block_bitmap" =>
        /\ get_group_block_bitmap(disk, mem, last.g).size = last.bm.size
        /\ BitMap_bits(get_group_block_bitmap(disk, mem, last.g)) = BitMap_bits(last.bm)
        /\ \A b \in DOMAIN disk :
            b # get_group_block_bitmap_index(mem, last.g) => disk[b] = last.pre[b]
    /\ last.op = "store_inode_bitmap" =>
        /\ get_group_inode_bitmap(disk, mem, last.g).size = last.bm.size
        /\ BitMap_bits(get_group_inode_bitmap(disk, mem, last.g)) = BitMap_bits(last.bm)
        /\ \A b \in DOMAIN disk :
            b # get_group_inode_bitmap_index(mem, last.g) => disk[b] = last.pre[b]

\* A block bitmap with set and clear bits up to its last byte has been
\* stored for a group other than the first, over a different bitmap.
C8_Witness ==
    /\ last.op = "store_block_bitmap"
    /\ last.g >= 1
    /\ BitMap_test(last.bm, last.bm.size - 2)
    /\ ~BitMap_test(last.bm, last.bm.size - 1)
    /\ get_group_block_bitmap(last.pre, mem, last.g) # last.bm

(***************************************************************************)
(* The bitmaps format leaves on the device, under Spec.                    *)
(***************************************************************************)
\* C11: after Format, group 0's inode bitmap as loaded from the device has
\* the bit of inode number 2 (in-group index 1) set and no other bit set.
C11_RootInodeMarked ==
    last.op = "format" =>
        BitMap_bits(get_group_inode_bitmap(disk, mem, 0)) = {inode_ind(mem, 2)}

(***************************************************************************)
(* The layout of a group under the calculated geometry, under SpecGeom.    *)
(***************************************************************************)
\* C12: for every full group g the regions follow one another with no gap
\* and no overlap: superblock copy (1 block, at g * blocks_per_group + 1),
\* descriptor table (its span), block bitmap (1 block), inode bitmap
\* (1 block), inode table (its span), data region; and the data region ends
\* one block before the superblock copy of group g + 1.
C12_RegionsConsecutive ==
    last.op = "calc" =>
        LET m == format_geometry(cfg)
        IN  \A g \in 0..(m.full_group_count - 1) :
                /\ get_group_super_block_index(m, g) = g * m.blocks_per_group + 1
                /\ get_group_group_desc_table_index(m, g) = get_group_super_block_index(m, g) + 1
                /\ m.group_desc_block_count >= 1
                /\ get_group_block_bitmap_index(m, g)
                     = get_group_group_desc_table_index(m, g) + m.group_desc_block_count
                /\ get_group_inode_bitmap_index(m, g) = get_group_block_bitmap_index(m, g) + 1
                /\ get_group_inode_table_index(m, g) = get_group_inode_bitmap_index(m, g) + 1
                /\ m.inodes_table_block_count >= 1
                /\ get_group_data_table_index(m, g)
                     = get_group_inode_table_index(m, g) + m.inodes_table_block_count
                /\ last.ret.data_block_count >= 1
                /\ get_group_data_table_index(m, g) + last.ret.data_block_count
                     = get_group_super_block_index(m, g + 1)

\* A deployment has been calculated whose descriptor table and inode table
\* span several blocks and that has several full groups.
C12_Witness ==
    /\ last.op = "calc"
    /\ last.ret.FULL_GROUP_COUNT >= 2
    /\ last.ret.group_desc_block_count >= 2
    /\ last.ret.inodes_table_block_count >= 2

\* C13: after Format on a device with arbitrary prior content, in every full
\* group each set bit of the stored block bitmap is the bit of one of the
\* group's 3 + descriptor span + inode-table span metadata blocks or of the
\* root directory's data block, so that at least data_block_count - 1 bits
\* of each group's block bitmap are clear.
C13_NoStaleBits ==
    last.op \in {"format", "format_crash"} =>
        \A g \in 0..(last.geo.full_group_count - 1) :
            LET bm == get_group_block_bitmap(disk, last.geo, g)
            IN  /\ \A b \in BitMap_bits(bm) :
                    \/ b < MetaBlocks(last.geo)
                    \/ last.tmp # <<>> /\ get_group_index(last.geo, g) + b = last.tmp[1]
                /\ Cardinality(BitMap_clear(bm))
                     >= block_group_calculation(cfg).data_block_count - 1

====
